---- MODULE Spec2Model ----
(***************************************************************************)
(* Model of lambda/index.py: the chat handler that forwards a message to   *)
(* the FastAPI backend and falls back to Bedrock.                          *)
(*                                                                         *)
(* Python strings whose characters the code inspects (the FASTAPI_URL      *)
(* environment value, the function ARN, the region) are sequences of       *)
(* one-character strings.  Texts that the code only passes along (the      *)
(* message, the replies, history contents) are TLA+ strings.               *)
(***************************************************************************)
EXTENDS Naturals, Sequences, FiniteSets

(***************************************************************************)
(* Bounds of the model.                                                    *)
(***************************************************************************)
\* invocations of lambda_handler within one process
MaxInvocations == 2
\* entries of an incoming conversationHistory
MaxHist == 2
\* colon-separated fields of an ARN given to extract_region_from_arn
MaxFields == 7

(***************************************************************************)
(* Character strings.                                                      *)
(***************************************************************************)
COLON == ":"
SLASH == "/"

s_empty == << >>
s_arn == <<"a", "r", "n">>
s_xarn == <<"x", "a", "r", "n">>
s_aws == <<"a", "w", "s">>
s_aws_cn == <<"a", "w", "s", "-", "c", "n">>
s_lambda == <<"l", "a", "m", "b", "d", "a">>
s_s3 == <<"s", "3">>
s_eu_west_1 == <<"e", "u", "-", "w", "e", "s", "t", "-", "1">>
s_ap_south_1 == <<"a", "p", "-", "s", "o", "u", "t", "h", "-", "1">>
s_us_east_1 == <<"u", "s", "-", "e", "a", "s", "t", "-", "1">>
s_123 == <<"1", "2", "3">>
s_function == <<"f", "u", "n", "c", "t", "i", "o", "n">>
s_f == <<"f">>
s_url == <<"h", "t", "t", "p", ":", "/", "/", "h", "/", "g">>

\* sep.join(parts)
RECURSIVE Join(_, _)
Join(parts, sep) ==
    IF parts = << >> THEN << >>
    ELSE IF Len(parts) = 1 THEN parts[1]
    ELSE parts[1] \o <<sep>> \o Join(Tail(parts), sep)

(***************************************************************************)
(* Module-level constants (lines 17-23).                                   *)
(***************************************************************************)
\* str.rstrip("/"): drop every trailing slash
RECURSIVE rstrip_slash(_)
rstrip_slash(s) ==
    IF s # << >> /\ s[Len(s)] = SLASH
    THEN rstrip_slash(SubSeq(s, 1, Len(s) - 1))
    ELSE s

\* the values of the FASTAPI_URL environment variable; present is FALSE when
\* the variable is not set
EnvValues ==
    { [present |-> FALSE, val |-> s_empty],
      [present |-> TRUE, val |-> s_empty],
      [present |-> TRUE, val |-> <<SLASH>>],
      [present |-> TRUE, val |-> s_url],
      [present |-> TRUE, val |-> s_url \o <<SLASH>>],
      [present |-> TRUE, val |-> s_url \o <<SLASH, SLASH>>] }

\* os.getenv(name, default)
getenv(env, default) == IF env.present THEN env.val ELSE default

\* FASTAPI_URL = os.getenv("FASTAPI_URL", "").rstrip("/")
LoadFastapiUrl(env) == rstrip_slash(getenv(env, s_empty))

MODEL_ID == "us.amazon.nova-lite-v1:0"

(***************************************************************************)
(* extract_region_from_arn (lines 28-34).                                  *)
(***************************************************************************)
\* the literal head of the pattern r"arn:aws:lambda:([^:]+):"
ArnPatternHead == Join(<<s_arn, s_aws, s_lambda, s_empty>>, COLON)

DEFAULT_REGION == s_us_east_1

\* s has the literal p at position i
LiteralAt(s, i, p) ==
    /\ i + Len(p) - 1 <= Len(s)
    /\ \A k \in 1..Len(p) : s[i + k - 1] = p[k]

\* [^:]+ is greedy: the position just after the longest colon-free run from j
RunEnd(s, j) ==
    CHOOSE e \in j..(Len(s) + 1) :
        /\ \A m \in j..(e - 1) : s[m] # COLON
        /\ (e = Len(s) + 1 \/ s[e] = COLON)

\* the pattern matches at position i: the head, one or more characters other
\* than a colon, then a colon
PatternMatchesAt(s, i) ==
    /\ LiteralAt(s, i, ArnPatternHead)
    /\ LET j == i + Len(ArnPatternHead)
           e == RunEnd(s, j)
       IN  e > j /\ e <= Len(s)

\* match.group(1) of the match at position i
Group1At(s, i) ==
    LET j == i + Len(ArnPatternHead)
    IN  SubSeq(s, j, RunEnd(s, j) - 1)

\* the start positions re.match would try: the beginning of the string only
MatchPositions(s) == {1}

\* the start positions re.search tries: every position of the string
SearchPositions(s) == 1..Len(s)

\* re.search(pattern, arn): the leftmost position where the pattern matches,
\* 0 for None
re_search(s) ==
    LET hits == {i \in SearchPositions(s) : PatternMatchesAt(s, i)}
    IN  IF hits = {} THEN 0
        ELSE CHOOSE i \in hits : \A k \in hits : i <= k

extract_region_from_arn(arn) ==
    LET match == re_search(arn)
    IN  IF match # 0 THEN Group1At(arn, match) ELSE DEFAULT_REGION

(***************************************************************************)
(* Values the handler receives.                                            *)
(***************************************************************************)
\* message texts
Messages == {"hi", "yo"}

\* texts a backend generates
Texts == {"", "a", "b"}

\* a JSON object field that may be missing: present is FALSE when it is
Missing == [present |-> FALSE, val |-> ""]
Field(v) == [present |-> TRUE, val |-> v]

HistEntries ==
    { [role |-> "user", content |-> "a"],
      [role |-> "assistant", content |-> "b"] }

HistLists == UNION {[1..n -> HistEntries] : n \in 0..MaxHist}

\* the conversationHistory field of the request body: missing, null or a list
HistFields ==
    {[kind |-> "absent", items |-> << >>], [kind |-> "null", items |-> << >>]}
        \cup {[kind |-> "list", items |-> h] : h \in HistLists}

\* the message field of the request body: missing, a number or a string
BadMessageFields ==
    {[kind |-> "absent", val |-> ""], [kind |-> "number", val |-> "5"]}

\* the decoded body when it is a JSON object
BodyValue(m, h) == [message |-> m, conversationHistory |-> h]

NoBodyValue ==
    BodyValue([kind |-> "absent", val |-> ""], [kind |-> "absent", items |-> << >>])

\* the bodies with a string message and no conversationHistory
PlainBodies ==
    {[kind |-> "object",
      val |-> BodyValue([kind |-> "str", val |-> m],
                        [kind |-> "absent", items |-> << >>])] : m \in Messages}

\* event["body"]: null, text that is not JSON, a JSON array, or a JSON object
RawBodies ==
    {[kind |-> k, val |-> NoBodyValue] : k \in {"null", "notjson", "array"}}
        \cup {[kind |-> "object",
               val |-> BodyValue(m, [kind |-> "absent", items |-> << >>])] :
                  m \in BadMessageFields}
        \cup PlainBodies
        \cup {[kind |-> "object",
               val |-> BodyValue([kind |-> "str", val |-> "hi"], h)] :
                  h \in HistFields}

\* event["requestContext"]["authorizer"]: missing, the Cognito block with its
\* claims, or a block without claims
Authorizers == {"absent", "claims", "no_claims"}

\* the events: every body without an authorizer block, and the plain bodies
\* under each authorizer block
Events ==
    [authorizer : {"absent"}, body : RawBodies]
        \cup [authorizer : Authorizers, body : PlainBodies]

\* context.invoked_function_arn
ContextArns ==
    { Join(<<s_arn, s_aws, s_lambda, s_eu_west_1, s_123, s_function, s_f>>, COLON),
      Join(<<s_arn, s_aws, s_lambda, s_ap_south_1, s_123, s_function, s_f>>, COLON),
      Join(<<s_arn, s_aws_cn, s_lambda, s_ap_south_1, s_123, s_function, s_f>>, COLON) }

Contexts == [invoked_function_arn : ContextArns]

(***************************************************************************)
(* What the backends answer.                                               *)
(***************************************************************************)
\* the decoded body of a FastAPI response
NoRespJson == [kind |-> "none", generated_text |-> Missing, text |-> Missing]

RespBodies ==
    {[kind |-> k, generated_text |-> Missing, text |-> Missing] :
        k \in {"notjson", "array"}}
        \cup {[kind |-> "object", generated_text |-> g, text |-> t] :
                  g \in {Missing} \cup {Field(v) : v \in Texts},
                  t \in {Missing} \cup {Field(v) : v \in Texts}}

\* what urlopen meets: no connection, no address, no answer in time, or an
\* HTTP response; read_ok is FALSE when reading the response body fails
PrimaryOutcomes ==
    {[kind |-> k, status |-> 0, read_ok |-> TRUE, body |-> NoRespJson] :
        k \in {"connection", "dns", "timeout"}}
        \cup {[kind |-> "response", status |-> st, read_ok |-> TRUE, body |-> NoRespJson] :
                  st \in {404, 500}}
        \cup {[kind |-> "response", status |-> 200, read_ok |-> FALSE, body |-> NoRespJson]}
        \cup {[kind |-> "response", status |-> st, read_ok |-> TRUE, body |-> b] :
                  st \in {200, 201}, b \in RespBodies}

NoPrimaryOutcome == [kind |-> "none", status |-> 0, read_ok |-> TRUE, body |-> NoRespJson]

\* the content list of the output message of a Bedrock response
BedContents == UNION {[1..n -> {"a", "b"}] : n \in 0..2}

NoBedJson == [kind |-> "none", content |-> << >>]

\* what the Bedrock calls meet: construct_ok is FALSE when boto3.client raises,
\* kind is "error" when invoke_model raises
SecondaryOutcomes ==
    {[construct_ok |-> c, kind |-> "error", content |-> << >>] : c \in BOOLEAN}
        \cup {[construct_ok |-> c, kind |-> "ok", content |-> k] :
                  c \in BOOLEAN, k \in BedContents}

NoSecondaryOutcome == [construct_ok |-> TRUE, kind |-> "none", content |-> << >>]

(***************************************************************************)
(* State.  FASTAPI_URL and bedrock_client are the module's globals; the    *)
(* other variables are the locals of the invocation in progress (or of the *)
(* last one, kept until the next begins) and what it sent and returned.    *)
(***************************************************************************)
VARIABLES
    FASTAPI_URL,            \* line 17
    bedrock_client,         \* line 23; serial counts the clients constructed
    invocations,            \* invocations begun in this process
    pc,                     \* where the invocation in progress stands
    event,
    context,
    message,
    conversation_history,
    assistant_response,
    used_fallback,
    primary_outcome,        \* what the FastAPI call met
    primary_exc,            \* the exception lines 81-84 raised, "" for none
    resp_json,
    secondary_outcome,      \* what the Bedrock calls met
    bed_json,
    calls,                  \* the backends called, in order
    primary_requests,       \* what was sent to FastAPI
    secondary_requests,     \* what was sent to Bedrock, and the client used
    result,                 \* what lambda_handler returned or raised
    region_calls,           \* the ARNs extract_region_from_arn was called with
    twin,                   \* the invocation before, when this one repeats it
    threads                 \* two invocations interleaved at lines 94-116

vars ==
    <<FASTAPI_URL, bedrock_client, invocations, pc, event, context, message,
      conversation_history, assistant_response, used_fallback, primary_outcome,
      primary_exc, resp_json, secondary_outcome, bed_json, calls,
      primary_requests, secondary_requests, result, region_calls, twin,
      threads>>

globals == <<FASTAPI_URL, bedrock_client>>

\* bedrock_client = None
NoClient == [set |-> FALSE, region |-> s_empty, serial |-> 0]

NoHistory == [kind |-> "list", items |-> << >>]

NoBody ==
    [success |-> FALSE, response |-> "", conversationHistory |-> << >>, via |-> ""]

NoResult ==
    [kind |-> "none", exc |-> "", statusCode |-> 0, headers |-> {}, body |-> NoBody]

\* no invocation went before with the same body and the same backend answers
NoTwin ==
    [set |-> FALSE, authorizer |-> "absent",
     primary_outcome |-> NoPrimaryOutcome,
     secondary_outcome |-> NoSecondaryOutcome, result |-> NoResult]

\* the invocations that run interleaved in one process
Threads == {1, 2}

\* a thread of lines 94-116: where it stands, its ARN, the client it built at
\* line 96 and the client it called invoke_model on at line 112
NoThread == [pc |-> "off", arn |-> s_empty, built |-> NoClient, used |-> NoClient]

NoThreads == [t \in Threads |-> NoThread]

\* an exception leaves lambda_handler
Raised(exc) ==
    [kind |-> "raised", exc |-> exc, statusCode |-> 0, headers |-> {}, body |-> NoBody]

(***************************************************************************)
(* Decoding the request (lines 45-57).                                     *)
(***************************************************************************)
\* the exception lines 47-56 raise on this event, "" for none
DecodeError(ev) ==
    IF ev.authorizer = "no_claims" THEN "KeyError"
    ELSE IF ev.body.kind = "null" THEN "TypeError"
    ELSE IF ev.body.kind = "notjson" THEN "JSONDecodeError"
    ELSE IF ev.body.kind = "array" THEN "TypeError"
    ELSE IF ev.body.val.message.kind = "absent" THEN "KeyError"
    ELSE IF ev.body.val.message.kind = "number" THEN "TypeError"
    ELSE ""

\* one list is the default of every invocation: the list the invocation before
\* left serves when the request carries none
GetHistoryShared(body) ==
    IF body.conversationHistory.kind = "absent" THEN conversation_history
    ELSE body.conversationHistory

\* body.get("conversationHistory", [])
GetHistory(body) ==
    IF body.conversationHistory.kind = "absent" THEN NoHistory
    ELSE body.conversationHistory

\* if FASTAPI_URL: (line 63)
PrimaryAlwaysConfigured(url) == TRUE

PrimaryConfigured(url) == url # s_empty

(***************************************************************************)
(* The FastAPI call (lines 64-88).                                         *)
(***************************************************************************)
max_new_tokens == 256
urlopen_timeout == 30

PrimaryRequest(url, msg) ==
    [url |-> url, method |-> "POST", content_type |-> "application/json",
     timeout |-> urlopen_timeout,
     payload |-> [prompt |-> msg, max_new_tokens |-> max_new_tokens,
                  do_sample |-> TRUE, temperature |-> "0.7", top_p |-> "0.9"]]

\* urlopen takes only status 200 for a success
UrlopenRaises200Only(o) ==
    IF o.kind \in {"connection", "dns"} THEN "URLError"
    ELSE IF o.kind = "timeout" THEN "TimeoutError"
    ELSE IF o.status # 200 THEN "HTTPError"
    ELSE ""

\* the exception urlopen raises, "" when it returns the response: URLError
\* when the host cannot be reached, TimeoutError when no answer comes within
\* the timeout, HTTPError for a status outside 2xx
UrlopenRaises(o) ==
    IF o.kind \in {"connection", "dns"} THEN "URLError"
    ELSE IF o.kind = "timeout" THEN "TimeoutError"
    ELSE IF ~(200 <= o.status /\ o.status < 300) THEN "HTTPError"
    ELSE ""

\* the exception lines 82-83 raise on the response urlopen returned
ReadError(o) ==
    IF ~o.read_ok THEN "IncompleteRead"
    ELSE IF o.body.kind = "notjson" THEN "JSONDecodeError"
    ELSE IF o.body.kind = "array" THEN "AttributeError"
    ELSE ""

\* the exception lines 81-84 raise, "" for none
PrimaryError(o) ==
    IF UrlopenRaises(o) # "" THEN UrlopenRaises(o) ELSE ReadError(o)

\* an except clause that does not name TimeoutError
ExceptCatchesUrlErrorsOnly(exc) == exc \in {"URLError", "HTTPError"}

\* except (urllib.error.URLError, urllib.error.HTTPError, TimeoutError) (line 86)
ExceptCatches(exc) == exc \in {"URLError", "HTTPError", "TimeoutError"}

\* an answer without a reply is taken for a failure too
FallsBackOnEmptyReply(exc, text) ==
    \/ exc # "" /\ ExceptCatches(exc)
    \/ exc = "" /\ text = ""

\* used_fallback after lines 64-88: set by the except clause only
FallsBack(exc, text) == exc # "" /\ ExceptCatches(exc)

\* dict.get(key): None when the key is missing; None and "" are both falsy
Truthy(f) == f.present /\ f.val # ""

\* text is looked up first
ExtractTextFirst(j) ==
    IF Truthy(j.text) THEN j.text.val
    ELSE IF j.generated_text.present THEN j.generated_text.val
    ELSE ""

\* resp_json.get("generated_text") or resp_json.get("text", "") (line 83)
ExtractText(j) ==
    IF Truthy(j.generated_text) THEN j.generated_text.val
    ELSE IF j.text.present THEN j.text.val
    ELSE ""

(***************************************************************************)
(* The Bedrock call (lines 93-118).                                        *)
(***************************************************************************)
maxTokens == 512

\* a handler that enters the Bedrock branch whatever used_fallback is
EntersSecondaryAlways(fallback) == TRUE

\* if used_fallback: (line 93)
EntersSecondary(fallback) == fallback

\* a handler that constructs a client on every call
NeedsClientAlways(client) == TRUE

\* if bedrock_client is None: (line 94)
NeedsClient(client) == ~client.set

\* boto3.client("bedrock-runtime"): no region_name, the client gets the default
NewClientDefaultRegion(region, serial) ==
    [set |-> TRUE, region |-> DEFAULT_REGION, serial |-> serial]

\* boto3.client("bedrock-runtime", region_name=region) (line 96)
NewClient(region, serial) == [set |-> TRUE, region |-> region, serial |-> serial]

\* the conversation so far is sent along, the message last
SecondaryRequestWithHistory(client, msg) ==
    [client |-> client, modelId |-> MODEL_ID, contentType |-> "application/json",
     body |-> [messages |->
                   [i \in 1..Len(conversation_history.items) |->
                       [role |-> conversation_history.items[i].role,
                        content |-> <<[text |-> conversation_history.items[i].content]>>]]
                   \o <<[role |-> "user", content |-> <<[text |-> msg]>>]>>,
               inferenceConfig |-> [maxTokens |-> maxTokens, temperature |-> "0.7",
                                    topP |-> "0.9"]]]

\* lines 99-116: the single-turn messages, the inference configuration and the
\* arguments of invoke_model
SecondaryRequest(client, msg) ==
    [client |-> client, modelId |-> MODEL_ID, contentType |-> "application/json",
     body |-> [messages |-> <<[role |-> "user", content |-> <<[text |-> msg]>>]>>,
               inferenceConfig |-> [maxTokens |-> maxTokens, temperature |-> "0.7",
                                    topP |-> "0.9"]]]

\* bed_json["output"]["message"]["content"][0]["text"] (line 118)
BedrockText(j) == j.content[1]

(***************************************************************************)
(* The response (lines 120-141).                                           *)
(***************************************************************************)
CORS_HEADERS ==
    { <<"Content-Type", "application/json">>,
      <<"Access-Control-Allow-Origin", "*">>,
      <<"Access-Control-Allow-Headers",
        "Content-Type,X-Amz-Date,Authorization,X-Api-Key,X-Amz-Security-Token">>,
      <<"Access-Control-Allow-Methods", "OPTIONS,POST">> }

\* the new entry is put in front
PrependAssistant(items, text) ==
    <<[role |-> "assistant", content |-> text]>> \o items

\* conversation_history.append({"role": "assistant", "content": ...}) (line 121)
AppendAssistant(items, text) ==
    Append(items, [role |-> "assistant", content |-> text])

\* "bedrock" if used_fallback else "fastapi" (line 138)
ViaTag(fallback) == IF fallback THEN "bedrock" ELSE "fastapi"

\* conversation_history after line 121: the list is extended in place
HistoryAfter(hist, text) ==
    IF hist.kind # "list" THEN hist
    ELSE [kind |-> "list", items |-> AppendAssistant(hist.items, text)]

\* lines 120-141: the exception of the append on None, or the envelope
Respond(hist, text, fallback) ==
    IF hist.kind # "list" THEN Raised("AttributeError")
    ELSE [kind |-> "returned", exc |-> "", statusCode |-> 200,
          headers |-> CORS_HEADERS,
          body |-> [success |-> TRUE, response |-> text,
                    conversationHistory |-> HistoryAfter(hist, text).items,
                    via |-> ViaTag(fallback)]]

(***************************************************************************)
(* lambda_handler (lines 40-141), one action per stretch of code between   *)
(* two calls to the outside.                                               *)
(***************************************************************************)
Init ==
    /\ FASTAPI_URL \in {LoadFastapiUrl(e) : e \in EnvValues}
    /\ bedrock_client = NoClient
    /\ invocations = 0
    /\ pc = "idle"
    /\ event = [authorizer |-> "absent", body |-> [kind |-> "null", val |-> NoBodyValue]]
    /\ context = [invoked_function_arn |-> s_empty]
    /\ message = ""
    /\ conversation_history = NoHistory
    /\ assistant_response = ""
    /\ used_fallback = FALSE
    /\ primary_outcome = NoPrimaryOutcome
    /\ primary_exc = ""
    /\ resp_json = NoRespJson
    /\ secondary_outcome = NoSecondaryOutcome
    /\ bed_json = NoBedJson
    /\ calls = << >>
    /\ primary_requests = << >>
    /\ secondary_requests = << >>
    /\ result = NoResult
    /\ region_calls = << >>
    /\ twin = NoTwin
    /\ threads = NoThreads

\* lines 40-63 and 89-90: the event is decoded and the first tier chosen
Begin(ev, ctx) ==
    /\ pc = "idle"
    /\ invocations < MaxInvocations
    /\ invocations' = invocations + 1
    /\ event' = ev
    /\ context' = ctx
    /\ assistant_response' = ""
    /\ primary_outcome' = NoPrimaryOutcome
    /\ primary_exc' = ""
    /\ resp_json' = NoRespJson
    /\ secondary_outcome' = NoSecondaryOutcome
    /\ bed_json' = NoBedJson
    /\ calls' = << >>
    /\ primary_requests' = << >>
    /\ secondary_requests' = << >>
    /\ IF DecodeError(ev) # ""
       THEN /\ message' = ""
            /\ conversation_history' = NoHistory
            /\ used_fallback' = FALSE
            /\ result' = Raised(DecodeError(ev))
            /\ pc' = "idle"
       ELSE LET hist == GetHistory(ev.body.val)
                fallback == ~PrimaryConfigured(FASTAPI_URL)
            IN  /\ message' = ev.body.val.message.val
                /\ used_fallback' = fallback
                /\ IF ~fallback
                   THEN /\ conversation_history' = hist
                        /\ result' = NoResult
                        /\ pc' = "try_primary"
                   ELSE IF EntersSecondary(fallback)
                   THEN /\ conversation_history' = hist
                        /\ result' = NoResult
                        /\ pc' = "try_secondary"
                   ELSE /\ conversation_history' = HistoryAfter(hist, "")
                        /\ result' = Respond(hist, "", fallback)
                        /\ pc' = "idle"
    /\ region_calls' = << >>
    /\ UNCHANGED <<globals, threads>>

Invoke(ev, ctx) ==
    /\ Begin(ev, ctx)
    /\ UNCHANGED twin

\* lines 64-88, and lines 120-141 when FastAPI answered: the request is sent,
\* and the answer read or the failure caught
TryPrimary(o) ==
    /\ pc = "try_primary"
    /\ calls' = Append(calls, "primary")
    /\ primary_requests' = Append(primary_requests, PrimaryRequest(FASTAPI_URL, message))
    /\ LET exc == PrimaryError(o)
           text == IF exc = "" THEN ExtractText(o.body) ELSE ""
           fallback == FallsBack(exc, text)
       IN  /\ primary_outcome' = o
           /\ primary_exc' = exc
           /\ resp_json' = IF exc = "" THEN o.body ELSE NoRespJson
           /\ assistant_response' = text
           /\ used_fallback' = fallback
           /\ IF exc # "" /\ ~fallback
              THEN /\ conversation_history' = conversation_history
                   /\ result' = Raised(exc)
                   /\ pc' = "idle"
              ELSE IF EntersSecondary(fallback)
              THEN /\ conversation_history' = conversation_history
                   /\ result' = NoResult
                   /\ pc' = "try_secondary"
              ELSE /\ conversation_history' = HistoryAfter(conversation_history, text)
                   /\ result' = Respond(conversation_history, text, fallback)
                   /\ pc' = "idle"
    /\ UNCHANGED <<globals, invocations, event, context, message,
                   secondary_outcome, bed_json, secondary_requests,
                   region_calls, twin, threads>>

\* lines 93-141: the client is constructed if there is none, the model invoked
\* and the envelope returned
TrySecondary(o) ==
    /\ pc = "try_secondary"
    /\ LET need == NeedsClient(bedrock_client)
           region == extract_region_from_arn(context.invoked_function_arn)
           constructed == need /\ o.construct_ok
           client == IF constructed
                     THEN NewClient(region, bedrock_client.serial + 1)
                     ELSE bedrock_client
           invoked == ~need \/ o.construct_ok
           exc == IF ~invoked THEN "BotoCoreError"
                  ELSE IF o.kind = "error" THEN "ClientError"
                  ELSE IF o.content = << >> THEN "IndexError"
                  ELSE ""
           text == IF exc = "" THEN BedrockText(o) ELSE assistant_response
       IN  /\ secondary_outcome' = o
           /\ region_calls' =
                  IF need THEN Append(region_calls, context.invoked_function_arn)
                  ELSE region_calls
           /\ bedrock_client' = client
           /\ calls' = IF invoked THEN Append(calls, "secondary") ELSE calls
           /\ secondary_requests' =
                  IF invoked
                  THEN Append(secondary_requests, SecondaryRequest(client, message))
                  ELSE secondary_requests
           /\ bed_json' = IF invoked /\ o.kind = "ok"
                          THEN [kind |-> "object", content |-> o.content]
                          ELSE NoBedJson
           /\ assistant_response' = text
           /\ conversation_history' =
                  IF exc # "" THEN conversation_history
                  ELSE HistoryAfter(conversation_history, text)
           /\ result' = IF exc # "" THEN Raised(exc)
                        ELSE Respond(conversation_history, text, used_fallback)
           /\ pc' = "idle"
    /\ UNCHANGED <<FASTAPI_URL, invocations, event, context, message,
                   used_fallback, primary_outcome, primary_exc, resp_json,
                   primary_requests, twin, threads>>

Next ==
    \/ \E ev \in Events, ctx \in Contexts : Invoke(ev, ctx)
    \/ \E o \in PrimaryOutcomes : TryPrimary(o)
    \/ \E o \in SecondaryOutcomes : TrySecondary(o)

Spec == Init /\ [][Next]_vars

(***************************************************************************)
(* Properties.  The event and the outcomes of the backend calls are kept   *)
(* in the state until the next invocation begins, so a property of one     *)
(* invocation is an invariant over them.                                   *)
(***************************************************************************)
\* the request is one the API accepts: a JSON object with a string message
\* and a conversationHistory that is a list or missing, under no authorizer
\* block or the Cognito one
ValidRequest ==
    /\ invocations > 0
    /\ event.authorizer \in {"absent", "claims"}
    /\ event.body.kind = "object"
    /\ event.body.val.message.kind = "str"
    /\ event.body.val.conversationHistory.kind \in {"absent", "list"}

\* the history the request carried
InputHistory ==
    IF event.body.val.conversationHistory.kind = "list"
    THEN event.body.val.conversationHistory.items
    ELSE << >>

\* lambda_handler returned the success envelope
ReturnedSuccess ==
    /\ pc = "idle"
    /\ result.kind = "returned"
    /\ result.statusCode = 200
    /\ result.body.success

\* FastAPI answered with a 2xx status and a JSON object
PrimaryAnswered2xx ==
    /\ primary_outcome.kind = "response"
    /\ primary_outcome.status \in 200..299
    /\ primary_outcome.read_ok
    /\ primary_outcome.body.kind = "object"

\* the FastAPI attempt failed by a connection failure, a DNS failure, a
\* timeout or a status outside 2xx
PrimaryFailed ==
    \/ primary_outcome.kind \in {"connection", "dns", "timeout"}
    \/ primary_outcome.kind = "response" /\ primary_outcome.status \notin 200..299

\* C1: for a valid request with FASTAPI_URL set, when FastAPI answers 2xx with
\* an object holding generated_text or text, lambda_handler returns the
\* success envelope tagged with the primary's tag ("fastapi"), and Bedrock is
\* not invoked in that invocation.
C1_PrimaryServes ==
    ( /\ ValidRequest
      /\ FASTAPI_URL # s_empty
      /\ PrimaryAnswered2xx
      /\ ( primary_outcome.body.generated_text.present
           \/ primary_outcome.body.text.present ) )
        => /\ ReturnedSuccess
           /\ result.body.via = "fastapi"
           /\ calls = <<"primary">>
           /\ secondary_requests = << >>
           /\ secondary_outcome = NoSecondaryOutcome

C1_Witness ==
    /\ ValidRequest
    /\ FASTAPI_URL # s_empty
    /\ PrimaryAnswered2xx
    /\ primary_outcome.status = 201
    /\ ~primary_outcome.body.generated_text.present
    /\ primary_outcome.body.text = Field("b")
    /\ ReturnedSuccess
    /\ result.body.via = "fastapi"
    /\ result.body.response = "b"
    /\ calls = <<"primary">>

\* C2: for a valid request with FASTAPI_URL set, a FastAPI attempt that fails
\* by connection failure, DNS failure, timeout or a non-2xx status is not
\* raised to the caller: the handler goes on to Bedrock, and when Bedrock
\* answers, it returns status 200, success true, the secondary's tag
\* ("bedrock") and the text of the first content element as the reply.
C2_FallbackOnPrimaryFailure ==
    (ValidRequest /\ FASTAPI_URL # s_empty /\ PrimaryFailed)
        => /\ ~(result.kind = "raised"
                /\ result.exc \in {"URLError", "HTTPError", "TimeoutError"})
           /\ used_fallback
           /\ pc = "try_secondary" \/ secondary_outcome.kind # "none"
           /\ (pc = "idle" /\ result.exc # "BotoCoreError")
                  => calls = <<"primary", "secondary">>
           /\ (pc = "idle" /\ bed_json.kind = "object" /\ bed_json.content # << >>)
                  => /\ ReturnedSuccess
                     /\ result.body.via = "bedrock"
                     /\ result.body.response = bed_json.content[1]

C2_Witness ==
    /\ ValidRequest
    /\ FASTAPI_URL # s_empty
    /\ primary_outcome.kind = "timeout"
    /\ bed_json.kind = "object"
    /\ bed_json.content = <<"b", "a">>
    /\ ReturnedSuccess
    /\ result.body.via = "bedrock"
    /\ result.body.response = "b"
    /\ calls = <<"primary", "secondary">>

\* C3: for a valid request handled while FASTAPI_URL is empty, the handler
\* goes straight to Bedrock: no FastAPI call is made in the invocation and a
\* response carries the secondary's tag ("bedrock").
C3_NoPrimaryWhenUnset ==
    (ValidRequest /\ FASTAPI_URL = s_empty)
        => /\ pc # "try_primary"
           /\ primary_requests = << >>
           /\ primary_outcome = NoPrimaryOutcome
           /\ \A i \in 1..Len(calls) : calls[i] # "primary"
           /\ used_fallback
           /\ pc = "try_secondary" \/ secondary_outcome.kind # "none"
           /\ result.kind = "returned" => result.body.via = "bedrock"

C3_Witness ==
    /\ ValidRequest
    /\ FASTAPI_URL = s_empty
    /\ ReturnedSuccess
    /\ result.body.via = "bedrock"
    /\ calls = <<"secondary">>
    /\ primary_requests = << >>

\* C4: a success envelope for an input history H of length n carries a
\* conversationHistory of length n+1 whose first n entries are H in order and
\* whose last entry is the assistant entry with the envelope's own response;
\* whichever backend served, and with n = 0 when the request has no
\* conversationHistory.
C4_HistoryRoundTrip ==
    (invocations > 0 /\ result.kind = "returned")
        => LET H == InputHistory
               out == result.body.conversationHistory
           IN  /\ Len(out) = Len(H) + 1
               /\ SubSeq(out, 1, Len(H)) = H
               /\ out[Len(out)] =
                      [role |-> "assistant", content |-> result.body.response]
               /\ event.body.val.conversationHistory.kind = "absent" => Len(out) = 1

C4_Witness ==
    /\ ReturnedSuccess
    /\ result.body.via = "bedrock"
    /\ Len(InputHistory) = 2
    /\ InputHistory[1] # InputHistory[2]
    /\ InputHistory[2].role = "user"
    /\ Len(result.body.conversationHistory) = 3
    /\ SubSeq(result.body.conversationHistory, 1, 2) = InputHistory
    /\ result.body.conversationHistory[3] = [role |-> "assistant", content |-> "a"]

\* C5: an invocation whose body is not valid JSON, or is an object without a
\* message field, returns success false with status 500; it does not end in
\* an exception leaving lambda_handler, and no backend is called.
MalformedBody ==
    /\ invocations > 0
    /\ event.authorizer # "no_claims"
    /\ \/ event.body.kind = "notjson"
       \/ event.body.kind = "object" /\ event.body.val.message.kind = "absent"

C5_MalformedBodyGets500 ==
    (MalformedBody /\ pc = "idle")
        => /\ result.kind = "returned"
           /\ result.statusCode = 500
           /\ ~result.body.success
           /\ calls = << >>

\* the part of C5 that the code keeps: no backend is called
C5_NoBackendOnMalformedBody ==
    MalformedBody
        => calls = << >> /\ primary_requests = << >> /\ secondary_requests = << >>

\* the Bedrock tier was entered and failed: boto3.client raised (no request
\* was sent), invoke_model raised, or the output holds no content element
SecondaryFailed ==
    /\ pc = "idle"
    /\ secondary_outcome.kind # "none"
    /\ \/ secondary_requests = << >>
       \/ secondary_outcome.kind = "error"
       \/ secondary_outcome.content = << >>

\* C6: for a valid request that reaches the Bedrock tier, a failure of the
\* Bedrock call (client construction, invocation or extraction of the reply)
\* gives the failure envelope with success false and status 500, and the
\* invocation does not end in an exception leaving lambda_handler.
C6_SecondaryFailureGets500 ==
    (ValidRequest /\ SecondaryFailed)
        => /\ result.kind = "returned"
           /\ result.statusCode = 500
           /\ ~result.body.success

\* C7: in one invocation FastAPI is called at most once and Bedrock at most
\* once; Bedrock is called only after the FastAPI attempt of the invocation
\* failed or when FASTAPI_URL is empty; FastAPI is never called after Bedrock.
C7_OneHopInOrder ==
    /\ calls \in {<< >>, <<"primary">>, <<"secondary">>, <<"primary", "secondary">>}
    /\ Len(primary_requests) = Cardinality({i \in 1..Len(calls) : calls[i] = "primary"})
    /\ Len(secondary_requests) =
           Cardinality({i \in 1..Len(calls) : calls[i] = "secondary"})
    /\ pc = "try_primary" => calls = << >>
    /\ (pc = "try_secondary" \/ secondary_outcome.kind # "none")
           => \/ FASTAPI_URL = s_empty /\ primary_requests = << >>
              \/ /\ FASTAPI_URL # s_empty
                 /\ calls[1] = "primary"
                 /\ primary_exc # ""
                 /\ primary_outcome.kind # "none"

C7_Witness ==
    /\ pc = "idle"
    /\ calls = <<"primary", "secondary">>
    /\ primary_exc = "HTTPError"
    /\ primary_outcome.status = 500
    /\ Len(primary_requests) = 1
    /\ Len(secondary_requests) = 1

\* C8 as claimed: on a 2xx FastAPI answer the first present field wins:
\* whenever the decoded body holds generated_text, whatever its value, the
\* reply is that value; only when it is missing is the reply the value of text.
C8_FirstPresentWins ==
    (invocations > 0 /\ PrimaryAnswered2xx)
        => /\ resp_json.generated_text.present
                  => assistant_response = resp_json.generated_text.val
           /\ (~resp_json.generated_text.present /\ resp_json.text.present)
                  => assistant_response = resp_json.text.val

\* C8 as the code has it: the first non-empty field wins.  When the decoded
\* body holds a non-empty generated_text the reply is that value; when
\* generated_text is missing or empty the reply is the value of text, and the
\* empty string when text is missing too.
C8_FirstNonEmptyWins ==
    (invocations > 0 /\ PrimaryAnswered2xx)
        => LET g == primary_outcome.body.generated_text
               t == primary_outcome.body.text
           IN  /\ resp_json = primary_outcome.body
               /\ (g.present /\ g.val # "") => assistant_response = g.val
               /\ ((~g.present \/ g.val = "") /\ t.present)
                      => assistant_response = t.val
               /\ ((~g.present \/ g.val = "") /\ ~t.present)
                      => assistant_response = ""
               /\ result.kind = "returned"
                      => result.body.response = assistant_response

C8_Witness ==
    /\ PrimaryAnswered2xx
    /\ resp_json.generated_text = Field("")
    /\ resp_json.text = Field("a")
    /\ assistant_response = "a"
    /\ ReturnedSuccess
    /\ result.body.response = "a"

\* C9: across the invocations of one process the Bedrock client is
\* constructed once: never before an invocation reaches the Bedrock tier, by
\* the first invocation that reaches it with boto3.client returning, and every
\* later invocation that reaches the tier sends its request with that same
\* client and constructs no other.
C9_ClientState ==
    /\ bedrock_client.serial <= 1
    /\ bedrock_client.set <=> bedrock_client.serial = 1
    /\ \A i \in 1..Len(secondary_requests) :
           secondary_requests[i].client = bedrock_client /\ bedrock_client.set

C9_ClientStep ==
    /\ bedrock_client' # bedrock_client
           => pc = "try_secondary" /\ ~bedrock_client.set /\ bedrock_client'.set
    /\ (pc = "try_secondary" /\ ~bedrock_client.set /\ result'.exc # "BotoCoreError")
           => bedrock_client'.set

C9_LazySingleton == []C9_ClientState /\ [][C9_ClientStep]_vars

\* the client in use was constructed by an earlier invocation, under another ARN
C9_Witness ==
    /\ invocations = 2
    /\ pc = "idle"
    /\ bedrock_client.set
    /\ bedrock_client.serial = 1
    /\ Len(secondary_requests) = 1
    /\ secondary_requests[1].client = bedrock_client
    /\ bedrock_client.region # extract_region_from_arn(context.invoked_function_arn)

(***************************************************************************)
(* extract_region_from_arn on its own: lines 94-97 for any ARN.            *)
(***************************************************************************)
\* the values tried for the i-th colon-separated field
ArnFieldChoices(i) ==
    CASE i = 1 -> {s_arn, s_xarn}
      [] i = 2 -> {s_aws, s_aws_cn}
      [] i = 3 -> {s_lambda, s_s3}
      [] i = 4 -> {s_empty, s_eu_west_1, s_ap_south_1}
      [] i = 5 -> {s_123}
      [] i = 6 -> {s_function}
      [] OTHER -> {s_f}

RECURSIVE ArnFieldLists(_)
ArnFieldLists(n) ==
    IF n = 0 THEN {<< >>}
    ELSE {Append(p, f) : p \in ArnFieldLists(n - 1), f \in ArnFieldChoices(n)}

\* a function ARN that follows the head of another
NestedArns ==
    {Join(<<s_arn, s_aws, s_lambda, r>>, COLON) \o <<COLON>> \o a :
        r \in {s_empty, s_eu_west_1}, a \in ContextArns}

ArnInputs ==
    UNION {{Join(p, COLON) : p \in ArnFieldLists(n)} : n \in 1..MaxFields}
        \cup NestedArns

InitRegion ==
    /\ FASTAPI_URL = s_empty
    /\ bedrock_client = NoClient
    /\ invocations = 1
    /\ pc = "try_secondary"
    /\ event = [authorizer |-> "absent", body |-> [kind |-> "null", val |-> NoBodyValue]]
    /\ context \in [invoked_function_arn : ArnInputs]
    /\ message = ""
    /\ conversation_history = NoHistory
    /\ assistant_response = ""
    /\ used_fallback = TRUE
    /\ primary_outcome = NoPrimaryOutcome
    /\ primary_exc = ""
    /\ resp_json = NoRespJson
    /\ secondary_outcome = NoSecondaryOutcome
    /\ bed_json = NoBedJson
    /\ calls = << >>
    /\ primary_requests = << >>
    /\ secondary_requests = << >>
    /\ result = NoResult
    /\ region_calls = << >>
    /\ twin = NoTwin
    /\ threads = NoThreads

\* lines 94-97: the client is constructed for the region of the ARN
InitialiseClient ==
    /\ NeedsClient(bedrock_client)
    /\ region_calls' = Append(region_calls, context.invoked_function_arn)
    /\ bedrock_client' =
           NewClient(extract_region_from_arn(context.invoked_function_arn),
                     bedrock_client.serial + 1)
    /\ UNCHANGED <<FASTAPI_URL, invocations, pc, event, context, message,
                   conversation_history, assistant_response, used_fallback,
                   primary_outcome, primary_exc, resp_json, secondary_outcome,
                   bed_json, calls, primary_requests, secondary_requests, result,
                   twin, threads>>

NextRegion == InitialiseClient

SpecRegion == InitRegion /\ [][NextRegion]_vars

\* s.split(sep): the fields of s between the separators
RECURSIVE Split(_, _)
Split(s, sep) ==
    IF \A k \in 1..Len(s) : s[k] # sep THEN <<s>>
    ELSE LET i == CHOOSE k \in 1..Len(s) :
                      s[k] = sep /\ \A m \in 1..(k - 1) : s[m] # sep
         IN  <<SubSeq(s, 1, i - 1)>> \o Split(SubSeq(s, i + 1, Len(s)), sep)

\* the string has the shape arn:*:*:{region}:*:*:*, the region not empty
HasArnShape(s) ==
    LET f == Split(s, COLON)
    IN  Len(f) >= 7 /\ f[1] = s_arn /\ f[4] # s_empty

\* arn:aws:lambda:{r}: stands in s at position i, r non-empty and colon-free
OccursAt(s, i, r) ==
    /\ r # << >>
    /\ \A k \in 1..Len(r) : r[k] # COLON
    /\ i + Len(ArnPatternHead) + Len(r) <= Len(s)
    /\ SubSeq(s, i, i + Len(ArnPatternHead) + Len(r))
           = ArnPatternHead \o r \o <<COLON>>

\* the regions of the occurrences of arn:aws:lambda:{r}: at position i
RegionsAt(s, i) ==
    {r \in {SubSeq(s, i + Len(ArnPatternHead), e) : e \in 1..Len(s)} :
        OccursAt(s, i, r)}

\* C10 as claimed: extract_region_from_arn returns the fourth colon-separated
\* field of every string of the shape arn:*:*:{region}:*:*:*, whatever the
\* partition and the service, and us-east-1 for every other string.
C10_FourthFieldOfAnyArn ==
    bedrock_client.set
        => LET arn == context.invoked_function_arn
           IN  IF HasArnShape(arn)
               THEN bedrock_client.region = Split(arn, COLON)[4]
               ELSE bedrock_client.region = s_us_east_1

\* C10 as the code has it: extract_region_from_arn returns the fourth
\* colon-separated field of every string of the shape
\* arn:aws:lambda:{region}:*:*:* with a non-empty region; in general it
\* returns the region of the leftmost arn:aws:lambda:{region}: found anywhere
\* in the string, and us-east-1 when the string holds none.
C10_RegionOfLambdaArn ==
    bedrock_client.set
        => LET arn == context.invoked_function_arn
               f == Split(arn, COLON)
               at == {i \in 1..Len(arn) : RegionsAt(arn, i) # {}}
           IN  /\ ( /\ HasArnShape(arn)
                    /\ f[2] = s_aws
                    /\ f[3] = s_lambda
                    /\ f[4] # s_empty ) => bedrock_client.region = f[4]
               /\ at = {} => bedrock_client.region = s_us_east_1
               /\ at # {} =>
                      \E i \in at :
                          /\ \A k \in at : i <= k
                          /\ bedrock_client.region \in RegionsAt(arn, i)

C10_Witness ==
    /\ bedrock_client.set
    /\ context.invoked_function_arn =
           Join(<<s_arn, s_aws, s_lambda, s_eu_west_1, s_123, s_function, s_f>>, COLON)
    /\ bedrock_client.region = s_eu_west_1

(***************************************************************************)
(* One request sent twice to a process: the second event has the body and  *)
(* the context of the first and another requestContext.authorizer, and the *)
(* backends answer the second as they answered the first.                  *)
(***************************************************************************)
\* lines 40-63: lambda_handler is called with the event of the invocation
\* before, its authorizer block replaced
Repeat(a) ==
    /\ pc = "idle"
    /\ invocations = 1
    /\ ~twin.set
    /\ a # event.authorizer
    /\ twin' = [set |-> TRUE, authorizer |-> event.authorizer,
                primary_outcome |-> primary_outcome,
                secondary_outcome |-> secondary_outcome, result |-> result]
    /\ Begin([event EXCEPT !.authorizer = a], context)

First(ev, ctx) ==
    /\ invocations = 0
    /\ Invoke(ev, ctx)

\* FastAPI answers the repeated request as it answered the first
PairPrimary(o) ==
    /\ twin.set => o = twin.primary_outcome
    /\ TryPrimary(o)

\* Bedrock answers the repeated request as it answered the first
PairSecondary(o) ==
    /\ twin.set => o = twin.secondary_outcome
    /\ TrySecondary(o)

NextPair ==
    \/ \E ev \in Events, ctx \in Contexts : First(ev, ctx)
    \/ \E a \in Authorizers : Repeat(a)
    \/ \E o \in PrimaryOutcomes : PairPrimary(o)
    \/ \E o \in SecondaryOutcomes : PairSecondary(o)

SpecPair == Init /\ [][NextPair]_vars

\* the repeated invocation has ended
PairEnded == twin.set /\ pc = "idle"

\* C11: two invocations that differ only in requestContext.authorizer (absent,
\* with claims, or with any other content) and meet the same backend behaviour
\* end the same way, with the same envelope: the authorizer block never makes
\* a request fail.
C11_AuthorizerNeverChangesOutcome ==
    PairEnded => result = twin.result

\* what does hold: an authorizer block with claims changes nothing
C11_ClaimsChangeNothing ==
    (PairEnded /\ event.authorizer # "no_claims" /\ twin.authorizer # "no_claims")
        => result = twin.result

C11_ClaimsWitness ==
    /\ PairEnded
    /\ event.authorizer = "claims"
    /\ twin.authorizer = "absent"
    /\ ReturnedSuccess
    /\ calls = <<"primary", "secondary">>

(***************************************************************************)
(* Lines 94-116 run by two invocations of one process at once.  A thread   *)
(* may be suspended between any two of: the test of line 94, the call of   *)
(* line 96, the store into the global of line 96, the read of the global   *)
(* at line 112.                                                            *)
(***************************************************************************)
InitRace ==
    /\ FASTAPI_URL = s_empty
    /\ bedrock_client = NoClient
    /\ invocations = 2
    /\ pc = "try_secondary"
    /\ event = [authorizer |-> "absent", body |-> [kind |-> "null", val |-> NoBodyValue]]
    /\ context = [invoked_function_arn |-> s_empty]
    /\ message \in Messages
    /\ conversation_history = NoHistory
    /\ assistant_response = ""
    /\ used_fallback = TRUE
    /\ primary_outcome = NoPrimaryOutcome
    /\ primary_exc = ""
    /\ resp_json = NoRespJson
    /\ secondary_outcome = NoSecondaryOutcome
    /\ bed_json = NoBedJson
    /\ calls = << >>
    /\ primary_requests = << >>
    /\ secondary_requests = << >>
    /\ result = NoResult
    /\ region_calls = << >>
    /\ twin = NoTwin
    /\ threads \in [Threads -> {[NoThread EXCEPT !.pc = "check", !.arn = a] :
                                    a \in ContextArns}]

\* the locals and the logs of one invocation, which the threads leave alone
RaceFrame ==
    UNCHANGED <<FASTAPI_URL, invocations, pc, event, context, message,
                conversation_history, assistant_response, used_fallback,
                primary_outcome, primary_exc, resp_json, secondary_outcome,
                bed_json, primary_requests, result, twin>>

\* the clients constructed so far
Constructed == Cardinality({t \in Threads : threads[t].built.set})

\* line 94: if bedrock_client is None
RaceCheck(t) ==
    /\ threads[t].pc = "check"
    /\ threads' = [threads EXCEPT ![t].pc =
                       IF NeedsClient(bedrock_client) THEN "construct" ELSE "invoke"]
    /\ UNCHANGED <<bedrock_client, calls, secondary_requests, region_calls>>
    /\ RaceFrame

\* lines 95-96, the right-hand side: the region is extracted and boto3.client
\* returns a client or raises
RaceConstruct(t, ok) ==
    /\ threads[t].pc = "construct"
    /\ region_calls' = Append(region_calls, threads[t].arn)
    /\ threads' =
           IF ok
           THEN [threads EXCEPT
                     ![t].pc = "store",
                     ![t].built = NewClient(extract_region_from_arn(threads[t].arn),
                                            Constructed + 1)]
           ELSE [threads EXCEPT ![t].pc = "construct_failed"]
    /\ UNCHANGED <<bedrock_client, calls, secondary_requests>>
    /\ RaceFrame

\* line 96, the assignment: the client is stored into the global
RaceStore(t) ==
    /\ threads[t].pc = "store"
    /\ bedrock_client' = threads[t].built
    /\ threads' = [threads EXCEPT ![t].pc = "invoke"]
    /\ UNCHANGED <<calls, secondary_requests, region_calls>>
    /\ RaceFrame

InvokeClientBuilt(shared, built) == built

\* line 112: invoke_model is called on what the global holds at that moment
InvokeClient(shared, built) == shared

\* lines 112-116: invoke_model is called; on None the attribute lookup raises
RaceInvoke(t) ==
    /\ threads[t].pc = "invoke"
    /\ LET client == InvokeClient(bedrock_client, threads[t].built)
       IN  IF client.set
           THEN /\ threads' = [threads EXCEPT ![t].pc = "done", ![t].used = client]
                /\ calls' = Append(calls, "secondary")
                /\ secondary_requests' =
                       Append(secondary_requests, SecondaryRequest(client, message))
           ELSE /\ threads' = [threads EXCEPT ![t].pc = "none_used"]
                /\ UNCHANGED <<calls, secondary_requests>>
    /\ UNCHANGED <<bedrock_client, region_calls>>
    /\ RaceFrame

NextRace ==
    \/ \E t \in Threads : RaceCheck(t)
    \/ \E t \in Threads, ok \in BOOLEAN : RaceConstruct(t, ok)
    \/ \E t \in Threads : RaceStore(t)
    \/ \E t \in Threads : RaceInvoke(t)

SpecRace == InitRace /\ [][NextRace]_vars

\* C12: when two invocations of one process interleave at the test and the
\* construction of the client, every invocation that reaches the Bedrock tier
\* calls invoke_model on a constructed client: no invocation uses an absent
\* client, and the shared reference, once set, is never unset again.  At
\* worst the client is constructed more than once.
C12_ClientState ==
    \A t \in Threads :
        /\ threads[t].pc # "none_used"
        /\ threads[t].pc = "invoke" => bedrock_client.set
        /\ threads[t].pc = "done"
               => /\ threads[t].used.set
                  /\ \E u \in Threads : threads[t].used = threads[u].built
    /\ \A i \in 1..Len(secondary_requests) : secondary_requests[i].client.set

C12_ClientStep ==
    /\ bedrock_client.set => bedrock_client'.set
    /\ bedrock_client' # bedrock_client
           => \E t \in Threads : threads[t].pc = "store"
                                    /\ bedrock_client' = threads[t].built

C12_RaceIsBenign == []C12_ClientState /\ [][C12_ClientStep]_vars

\* both invocations found no client and constructed one each; the first then
\* called invoke_model on the client the second had stored
C12_Witness ==
    /\ \A t \in Threads : threads[t].pc = "done"
    /\ threads[1].built.serial = 1
    /\ threads[2].built.serial = 2
    /\ bedrock_client = threads[2].built
    /\ threads[1].used = threads[2].built
    /\ threads[1].built.region # threads[2].built.region

\* an invocation has run to its end, by a return or by an exception
Ended == invocations > 0 /\ pc = "idle"

\* the cross-origin headers of an envelope
HasCorsHeaders(headers) ==
    /\ <<"Access-Control-Allow-Origin", "*">> \in headers
    /\ <<"Access-Control-Allow-Headers",
         "Content-Type,X-Amz-Date,Authorization,X-Api-Key,X-Amz-Security-Token">>
           \in headers
    /\ <<"Access-Control-Allow-Methods", "OPTIONS,POST">> \in headers

\* C13: every invocation, on the success path and on the failure path alike,
\* ends with a response envelope that carries the fixed cross-origin headers:
\* Access-Control-Allow-Origin "*", an Access-Control-Allow-Headers list with
\* Content-Type and Authorization, and Access-Control-Allow-Methods
\* "OPTIONS,POST".
C13_EveryPathCarriesCors ==
    Ended => result.kind = "returned" /\ HasCorsHeaders(result.headers)

\* what does hold: the envelopes that are returned carry the headers
C13_ReturnedEnvelopeCarriesCors ==
    result.kind = "returned" => HasCorsHeaders(result.headers)

\* the failure path: the invocation ended and nothing carries any header
C13_FailurePathWitness ==
    /\ Ended
    /\ ValidRequest
    /\ result.kind = "raised"
    /\ result.headers = {}

\* the message the request body carried
DecodedMessage == event.body.val.message.val

\* the number of times a backend occurs in the calls
Count(seq, x) == Cardinality({i \in 1..Len(seq) : seq[i] = x})

\* C14: in every invocation each request sent to FastAPI has the decoded
\* message for its prompt, with max_new_tokens 256, and each request sent to
\* Bedrock has a message list of exactly one entry, of role "user" and with the
\* decoded message for its text, with maxTokens 512, however long the input
\* history is; a request is sent for every call of a backend, and no entry of
\* the input history is in it.
C14_MessageForwardedUnaltered ==
    /\ Len(primary_requests) = Count(calls, "primary")
    /\ Len(secondary_requests) = Count(calls, "secondary")
    /\ \A i \in 1..Len(primary_requests) :
           /\ primary_requests[i].payload.prompt = DecodedMessage
           /\ primary_requests[i].payload.prompt = message
           /\ primary_requests[i].payload.max_new_tokens = 256
    /\ \A i \in 1..Len(secondary_requests) :
           LET b == secondary_requests[i].body
           IN  /\ Len(b.messages) = 1
               /\ b.messages[1].role = "user"
               /\ b.messages[1].content = <<[text |-> DecodedMessage]>>
               /\ b.inferenceConfig.maxTokens = 512

\* a request with a history of two entries went to both backends
C14_Witness ==
    /\ ValidRequest
    /\ Len(InputHistory) = 2
    /\ calls = <<"primary", "secondary">>
    /\ primary_requests[1].payload.prompt = DecodedMessage
    /\ secondary_requests[1].body.messages[1].content = <<[text |-> DecodedMessage]>>
    /\ ReturnedSuccess
    /\ Len(result.body.conversationHistory) = 3

\* FastAPI answered 2xx and the answer could not be used: the read of the body
\* failed, the body is not JSON, or the JSON is not an object
PrimaryAnswerUnusable ==
    /\ primary_outcome.kind = "response"
    /\ primary_outcome.status \in 200..299
    /\ \/ ~primary_outcome.read_ok
       \/ primary_outcome.body.kind \in {"notjson", "array"}

\* C15: any failure of the FastAPI attempt leads to the fallback, also one
\* after the status line: when FastAPI answers 2xx and the read of the body
\* fails, or the body is not valid JSON, or the decoded body is not an object,
\* lambda_handler goes on to Bedrock and does not end in an uncaught exception
\* of the FastAPI attempt.
C15_LateFailureFallsBack ==
    (ValidRequest /\ PrimaryAnswerUnusable)
        => /\ used_fallback
           /\ pc = "try_secondary" \/ secondary_outcome.kind # "none"
           /\ ~(result.kind = "raised" /\ result.exc = primary_exc)

\* what does hold: the failures of urlopen itself lead to the fallback
C15_EarlyFailureFallsBack ==
    (ValidRequest /\ PrimaryFailed)
        => /\ used_fallback
           /\ pc = "try_secondary" \/ secondary_outcome.kind # "none"

\* the body of a 200 answer is not JSON, and the invocation ended there
C15_UncaughtWitness ==
    /\ ValidRequest
    /\ Ended
    /\ primary_outcome.kind = "response"
    /\ primary_outcome.status = 200
    /\ primary_outcome.body.kind = "notjson"
    /\ result = Raised("JSONDecodeError")
    /\ calls = <<"primary">>

\* the entry line 121 appends
AssistantEntry(text) == [role |-> "assistant", content |-> text]

\* C16: invocations do not leak conversation state into each other.  In any
\* sequence of invocations of one process the history an invocation works on,
\* and returns, holds the entries of its own input history and then its own
\* assistant entry, never an entry of an earlier invocation, also when the
\* request carries no conversationHistory; and an invocation begins with
\* nothing of the invocation before but the Bedrock client (and the
\* configuration read at load).
C16_OwnHistory ==
    /\ (invocations > 0 /\ DecodeError(event) = ""
            /\ event.body.val.conversationHistory.kind # "null")
           => \/ conversation_history.items = InputHistory
              \/ /\ pc = "idle"
                 /\ conversation_history.items
                        = Append(InputHistory, AssistantEntry(assistant_response))
    /\ result.kind = "returned"
           => result.body.conversationHistory
                  = Append(InputHistory, AssistantEntry(result.body.response))

C16_FreshInvocation ==
    invocations' # invocations
        => /\ bedrock_client' = bedrock_client
           /\ FASTAPI_URL' = FASTAPI_URL
           /\ assistant_response' = ""
           /\ calls' = << >>
           /\ primary_requests' = << >>
           /\ secondary_requests' = << >>
           /\ region_calls' = << >>
           /\ primary_outcome' = NoPrimaryOutcome
           /\ secondary_outcome' = NoSecondaryOutcome
           /\ resp_json' = NoRespJson
           /\ bed_json' = NoBedJson
           /\ primary_exc' = ""
           /\ result' \in {NoResult, Raised(DecodeError(event'))}
           /\ message' \in {"", event'.body.val.message.val}
           /\ conversation_history'.kind = "list"
                  => conversation_history'.items \in {<< >>, InputHistory'}

C16_NoLeakBetweenInvocations == []C16_OwnHistory /\ [][C16_FreshInvocation]_vars

\* the second invocation of a process whose first went to Bedrock and left
\* its client: the request carries no history and gets back one entry
C16_Witness ==
    /\ invocations = 2
    /\ ValidRequest
    /\ event.body.val.conversationHistory.kind = "absent"
    /\ ReturnedSuccess
    /\ calls = <<"primary">>
    /\ bedrock_client.set
    /\ result.body.conversationHistory = <<AssistantEntry(result.body.response)>>

\* C17: the region of the Bedrock client is fixed by the first invocation
\* that reaches the Bedrock tier and constructs it: it is
\* extract_region_from_arn of the invoked_function_arn of that invocation, and
\* no later invocation changes it, whatever the region of its own ARN; an
\* invocation that finds the client set does not call extract_region_from_arn.
C17_RegionState ==
    /\ ~bedrock_client.set => bedrock_client.region = s_empty
    /\ \A i \in 1..Len(region_calls) :
           /\ region_calls[i] = context.invoked_function_arn
           /\ bedrock_client.set
                  => bedrock_client.region = extract_region_from_arn(region_calls[i])
    /\ Len(region_calls) <= 1

C17_RegionStep ==
    /\ (~bedrock_client.set /\ bedrock_client'.set)
           => /\ bedrock_client'.region
                     = extract_region_from_arn(context.invoked_function_arn)
              /\ region_calls' = <<context.invoked_function_arn>>
    /\ bedrock_client.set
           => /\ bedrock_client'.set
              /\ bedrock_client'.region = bedrock_client.region
              /\ region_calls' = << >> \/ region_calls' = region_calls

C17_RegionFixedByFirstUse == []C17_RegionState /\ [][C17_RegionStep]_vars

\* the second invocation runs under an ARN of ap-south-1 and sends its request
\* with the client of eu-west-1 the first constructed, extracting no region
C17_Witness ==
    /\ invocations = 2
    /\ pc = "idle"
    /\ calls = <<"secondary">>
    /\ region_calls = << >>
    /\ extract_region_from_arn(context.invoked_function_arn) = s_ap_south_1
    /\ bedrock_client.region = s_eu_west_1
    /\ secondary_requests[1].client.region = s_eu_west_1

\* FastAPI answered 2xx with a JSON object that has neither generated_text
\* nor text
PrimaryAnsweredWithoutReply ==
    /\ PrimaryAnswered2xx
    /\ ~primary_outcome.body.generated_text.present
    /\ ~primary_outcome.body.text.present

\* C18: when FastAPI answers 2xx with a JSON object holding neither
\* generated_text nor text, lambda_handler does not fall back: it returns
\* status 200 with success true, the tag of the primary ("fastapi"), the empty
\* string for the reply and the input history extended by an assistant entry
\* of empty content, and Bedrock is not invoked.
C18_EmptyReplyIsServed ==
    (ValidRequest /\ FASTAPI_URL # s_empty /\ PrimaryAnsweredWithoutReply)
        => /\ pc = "idle"
           /\ ~used_fallback
           /\ result.kind = "returned"
           /\ result.statusCode = 200
           /\ result.body.success
           /\ result.body.via = "fastapi"
           /\ result.body.response = ""
           /\ result.body.conversationHistory
                  = InputHistory \o <<[role |-> "assistant", content |-> ""]>>
           /\ calls = <<"primary">>
           /\ secondary_requests = << >>
           /\ secondary_outcome = NoSecondaryOutcome

C18_Witness ==
    /\ ValidRequest
    /\ PrimaryAnsweredWithoutReply
    /\ Len(InputHistory) = 1
    /\ ReturnedSuccess
    /\ result.body.via = "fastapi"
    /\ result.body.response = ""
    /\ Len(result.body.conversationHistory) = 2
    /\ result.body.conversationHistory[2].content = ""
    /\ calls = <<"primary">>
====
